---- MODULE Spec2Model ----
(***************************************************************************)
(* A model of two parts of the adversarial-robustness-toolbox:             *)
(*   - AdversarialPatchNumpy (adversarial_patch_numpy.py): the patch        *)
(*     optimizer, its random transformations and their inversion;           *)
(*   - ConvertedModel / PytorchDeepZ (deep_z/pytorch.py): the conversion    *)
(*     of a torch network to zonotope layers, the two forward passes and    *)
(*     the certification decision.                                          *)
(*                                                                          *)
(* Numbers.  Pixel values, gradients and the learning rate are integers.    *)
(* Scale factors, shift offsets and every zonotope coefficient are exact    *)
(* rationals <<n, d>> with d > 0 in lowest terms.                           *)
(*                                                                          *)
(* Tensors of the patch attack.  scipy.ndimage's rotate, zoom and shift are *)
(* library code: a tensor is modelled by its shape, the leaf it was made    *)
(* from and the sequence of library operations applied to it with their     *)
(* parameters (ops), which is what the attack's own code decides.           *)
(***************************************************************************)
EXTENDS Integers, Sequences, FiniteSets, TLC

VARIABLES
    \* ---- AdversarialPatchNumpy ----
    estimator,        \* the classifier: channels_first, input_shape, clip_values
    attack,           \* the attack's parameters and derived fields (self.*)
    patch,            \* self.patch: pixel values, indexed 1..NumPix
    pc,               \* position of the attack: constructed/running/done/error
    x,                \* the input of the running generate call: [ndim, n]
    iter,             \* iterations of generate completed
    queries,          \* calls of estimator.loss_gradient made by generate
    sampled,          \* calls of _random_transformation made by generate
    transforms,       \* the transformation records of the last iteration
    patch_gradients,  \* the accumulated gradient buffer of the last iteration
    raised,           \* the exception that ended generate, "" when none
    returned,         \* what generate returned: <<>> or <<patch, mask>>
    \* ---- ConvertedModel / PytorchDeepZ ----
    network,          \* the torch network handed to PytorchDeepZ and its flags
    model,            \* the ConvertedModel: forward_mode, ops, reshape_op_num
    pcz,              \* position of the certifier: new/converted/failed
    convert_error,    \* the exception that ended the conversion, "" when none
    last              \* the last call on the certifier, its inputs and outcome

patchVars == <<estimator, attack, patch, pc, x, iter, queries, sampled,
               transforms, patch_gradients, raised, returned>>

deepVars == <<network, model, pcz, convert_error, last>>

vars == <<patchVars, deepVars>>

(***************************************************************************)
(* Bounds of the model.                                                     *)
(***************************************************************************)
MaxIter == 2      \* max_iter ranges over 1..MaxIter
MaxBatch == 2     \* batch_size ranges over 1..MaxBatch
MaxN == 2         \* the input holds 0..MaxN images
MaxLayers == 3    \* the network executes 1..MaxLayers layers

(***************************************************************************)
(* Exact rationals.                                                         *)
(***************************************************************************)
Abs(n) == IF n < 0 THEN -n ELSE n

Min(a, b) == IF a <= b THEN a ELSE b

Max(a, b) == IF a >= b THEN a ELSE b

RECURSIVE Gcd(_, _)
Gcd(a, b) == IF b = 0 THEN a ELSE Gcd(b, a % b)

Rat(n, d) ==
    LET s == IF d < 0 THEN -1 ELSE 1
        g == Gcd(Abs(n), Abs(d))
    IN  <<(s * n) \div g, (s * d) \div g>>

RInt(n) == <<n, 1>>

RAdd(a, b) == Rat(a[1] * b[2] + b[1] * a[2], a[2] * b[2])

RSub(a, b) == Rat(a[1] * b[2] - b[1] * a[2], a[2] * b[2])

RMul(a, b) == Rat(a[1] * b[1], a[2] * b[2])

RDiv(a, b) == Rat(a[1] * b[2], a[2] * b[1])

RNeg(a) == <<-a[1], a[2]>>

RAbs(a) == <<Abs(a[1]), a[2]>>

RLt(a, b) == a[1] * b[2] < b[1] * a[2]

RLeq(a, b) == a[1] * b[2] <= b[1] * a[2]

\* numpy.round / Python round of the rational n/d (n >= 0): half to even.
RoundHalfEven(a) ==
    LET q == a[1] \div a[2]
        r == a[1] % a[2]
    IN  IF 2 * r < a[2] THEN q
        ELSE IF 2 * r > a[2] THEN q + 1
        ELSE IF q % 2 = 0 THEN q ELSE q + 1

(***************************************************************************)
(* Outcomes of a call: a value, or the exception it raises.                 *)
(***************************************************************************)
Ok(v) == [ok |-> TRUE, val |-> v]

Err(e) == [ok |-> FALSE, err |-> e]

(***************************************************************************)
(* AdversarialPatchNumpy: the classifier and the accepted parameters.       *)
(***************************************************************************)
\* The classifiers of the model.  The clip values have an even span, so that
\* the mean of line 125 is an integer.
Estimators ==
    [channels_first : {FALSE}, input_shape : {<<3, 3, 1>>, <<2, 3, 1>>},
     clip_values : {<<0, 2>>, <<4, 6>>}]
    \cup
    [channels_first : {TRUE}, input_shape : {<<1, 3, 3>>, <<1, 2, 3>>},
     clip_values : {<<0, 2>>, <<4, 6>>}]

ScaleValues == {Rat(1, 2), Rat(1, 1)}

ParamSpace ==
    [rotation_max : {0, 180}, scale_min : ScaleValues, scale_max : ScaleValues,
     learning_rate : {1, 2}, max_iter : 1..MaxIter, batch_size : 1..MaxBatch]

\* _check_params: TRUE when no ValueError is raised (numeric conditions).
_check_params(p) ==
    /\ ~(p.rotation_max < 0 \/ p.rotation_max > 180)
    /\ ~(RLt(p.scale_min, RInt(0)) \/ RLt(p.scale_max, p.scale_min))
    /\ ~RLt(RInt(1), p.scale_max)
    /\ p.learning_rate > 0
    /\ p.max_iter > 0
    /\ p.batch_size > 0

\* The index of the height and width axes (0-based, as in the source).
AxisH(est) == IF est.channels_first THEN 1 ELSE 0

AxisW(est) == IF est.channels_first THEN 2 ELSE 1

\* __init__, lines 95-123: the fields of self.  patch_shape is the image shape.
NewAttack(est, p) ==
    [rotation_max |-> p.rotation_max, scale_min |-> p.scale_min,
     scale_max |-> p.scale_max, learning_rate |-> p.learning_rate,
     max_iter |-> p.max_iter, batch_size |-> p.batch_size,
     image_shape |-> est.input_shape, patch_shape |-> est.input_shape,
     i_h |-> AxisH(est), i_w |-> AxisW(est)]

NumPix(shape) == shape[1] * shape[2] * shape[3]

MeanValueNoOffset(clip_values) == (clip_values[2] - clip_values[1]) \div 2

\* __init__, lines 125-127.
MeanValue(clip_values) == ((clip_values[2] - clip_values[1]) \div 2) + clip_values[1]

\* __init__, line 128: np.ones(patch_shape) * mean_value.
InitialPatch(est, att) == [i \in 1..NumPix(att.patch_shape) |-> MeanValue(est.clip_values)]

\* np.clip of one value and of an array.
Clip(v, lo, hi) == IF v < lo THEN lo ELSE IF v > hi THEN hi ELSE v

ClipArray(a, clip_values) == [i \in DOMAIN a |-> Clip(a[i], clip_values[1], clip_values[2])]

(***************************************************************************)
(* numpy indexing.                                                          *)
(***************************************************************************)
\* The number of elements the slice a:b selects on an axis of length n.
SliceLen(n, a, b) ==
    LET norm(i) == IF i < 0 THEN Max(i + n, 0) ELSE Min(i, n)
    IN  Max(norm(b) - norm(a), 0)

\* Whether an array of shape src can be assigned to a slice of shape dst.
Broadcastable(src, dst) ==
    /\ Len(src) = Len(dst)
    /\ \A i \in 1..Len(src) : src[i] = dst[i] \/ src[i] = 1

\* The output shape of scipy.ndimage.zoom: round(shape[i] * zoom[i]).
ZoomShape(shape, zooms) ==
    [i \in 1..Len(shape) |-> RoundHalfEven(RMul(RInt(shape[i]), zooms[i]))]

(***************************************************************************)
(* The transform engine.                                                    *)
(***************************************************************************)
\* The value of the circular mask at (r, c) of a d x d grid, as float32:
\* 1 - clip((x^2 + y^2)^40, -1, 1) with x, y on linspace(-1, 1, d) is 0 where
\* x^2 + y^2 >= 1 and rounds to 1 elsewhere for every d <= 5.
CircleValue(d, r, c) ==
    IF d = 1 THEN 0
    ELSE IF (2 * r - (d - 1)) * (2 * r - (d - 1)) + (2 * c - (d - 1)) * (2 * c - (d - 1))
            < (d - 1) * (d - 1)
         THEN 1 ELSE 0

\* _get_circular_patch_mask: the mask is a 2-D d x d array, so mask.shape[i_w]
\* exists only when i_w < 2.
_get_circular_patch_mask(est, att) ==
    LET diameter == Min(att.patch_shape[att.i_h + 1], att.patch_shape[att.i_w + 1])
        mshape == <<diameter, diameter>>
    IN  IF att.i_h + 1 > Len(mshape) \/ att.i_w + 1 > Len(mshape)
        THEN Err("IndexError: tuple index out of range")
        ELSE
          LET pad_h_before == (att.image_shape[att.i_h + 1] - mshape[att.i_h + 1]) \div 2
              pad_h_after == att.image_shape[att.i_h + 1] - pad_h_before - mshape[att.i_h + 1]
              pad_w_before == (att.image_shape[att.i_w + 1] - mshape[att.i_w + 1]) \div 2
              pad_w_after == att.image_shape[att.i_w + 1] - pad_w_before - mshape[att.i_w + 1]
              padded == <<pad_h_before + diameter + pad_h_after,
                          pad_w_before + diameter + pad_w_after>>
              px == [rc \in (0..(padded[1] - 1)) \X (0..(padded[2] - 1)) |->
                        IF /\ rc[1] >= pad_h_before /\ rc[1] < pad_h_before + diameter
                           /\ rc[2] >= pad_w_before /\ rc[2] < pad_w_before + diameter
                        THEN CircleValue(diameter, rc[1] - pad_h_before, rc[2] - pad_w_before)
                        ELSE 0]
              expanded == IF est.channels_first
                          THEN <<1, padded[1], padded[2]>>
                          ELSE <<padded[1], padded[2], 1>>
          IN  IF Broadcastable(expanded, att.patch_shape)
              THEN Ok([shape |-> att.patch_shape, leaf |-> [kind |-> "mask", v |-> px],
                       ops |-> <<>>])
              ELSE Err("ValueError: broadcast")

\* _rotate: scipy rotate with reshape=False keeps the shape.
_rotate(att, t, angle) ==
    [t EXCEPT !.ops = Append(@, [op |-> "rotate", angle |-> angle,
                                 axes |-> <<att.i_h, att.i_w>>])]

\* _scale, lines 284-328.  Lines 302 and 315 slice the first two axes whatever
\* the layout; lines 305/307 and 321/323 slice the height and width axes.
_scale(est, att, t, scale) ==
    LET one == RInt(1)
        zooms == IF est.channels_first THEN <<one, scale, scale>> ELSE <<scale, scale, one>>
        height == IF est.channels_first THEN att.patch_shape[2] ELSE att.patch_shape[1]
        width == IF est.channels_first THEN att.patch_shape[3] ELSE att.patch_shape[2]
        sh == t.shape
    IN  IF RLt(scale, one) THEN
          LET scale_h == RoundHalfEven(RMul(RInt(height), scale))
              scale_w == RoundHalfEven(RMul(RInt(width), scale))
              top == (height - scale_h) \div 2
              left == (width - scale_w) \div 2
              z == ZoomShape(sh, zooms)
              first2 == <<SliceLen(sh[1], top, top + scale_h),
                          SliceLen(sh[2], left, left + scale_w), sh[3]>>
              hw == IF est.channels_first
                    THEN <<sh[1], SliceLen(sh[2], top, top + scale_h),
                           SliceLen(sh[3], left, left + scale_w)>>
                    ELSE first2
          IN  IF ~Broadcastable(z, first2) \/ ~Broadcastable(z, hw)
              THEN Err("ValueError: could not broadcast input array")
              ELSE Ok([t EXCEPT !.ops = Append(@, [op |-> "scale", factor |-> scale,
                          region |-> <<top, left, scale_h, scale_w>>])])
        ELSE IF RLt(one, scale) THEN
          LET scale_h == RoundHalfEven(RDiv(RInt(height), scale))
              scale_w == RoundHalfEven(RDiv(RInt(width), scale))
              top == (height - scale_h) \div 2
              left == (width - scale_w) \div 2
              crop == <<SliceLen(sh[1], top, top + scale_h),
                        SliceLen(sh[2], left, left + scale_w), sh[3]>>
              z == ZoomShape(crop, zooms)
              cut_top == (z[att.i_h + 1] - height) \div 2
              cut_left == (z[att.i_w + 1] - width) \div 2
              out == IF est.channels_first
                     THEN <<z[1], SliceLen(z[2], cut_top, cut_top + height),
                            SliceLen(z[3], cut_left, cut_left + width)>>
                     ELSE <<SliceLen(z[1], cut_top, cut_top + height),
                            SliceLen(z[2], cut_left, cut_left + width), z[3]>>
          IN  Ok([shape |-> out, leaf |-> t.leaf,
                  ops |-> Append(t.ops, [op |-> "scale", factor |-> scale,
                                         region |-> <<top, left, scale_h, scale_w>>])])
        ELSE Ok(t)

\* _shift: scipy shift keeps the shape; the offsets are returned with the tensor.
_shift(est, t, shift_h, shift_w) ==
    <<[t EXCEPT !.ops = Append(@, [op |-> "shift",
          by |-> IF est.channels_first THEN <<RInt(0), shift_h, shift_w>>
                 ELSE <<shift_h, shift_w, RInt(0)>>])],
      shift_h, shift_w>>

\* The draws of one call of _random_transformation: random.uniform returns a
\* value of its closed interval.  The model draws three combinations of the
\* ends of the intervals; u holds the signs of the two shift draws
\* (shift = u * shift_max).
Draws(att) ==
    {[angle |-> -att.rotation_max, scale |-> att.scale_min, u |-> <<-1, 1>>],
     [angle |-> att.rotation_max, scale |-> att.scale_max, u |-> <<1, -1>>],
     [angle |-> att.rotation_max, scale |-> att.scale_min, u |-> <<1, 1>>]}

\* scale=None of _random_transformation and _augment_images_with_random_patch.
NoScale == <<>>

\* Lines 357-358: (input_shape[axis] - patch_shape[axis] * scale) / 2.0.
ShiftMax(est, att, axis, sc) ==
    RDiv(RSub(RInt(est.input_shape[axis + 1]), RMul(RInt(att.patch_shape[axis + 1]), sc)),
         RInt(2))

\* Lines 359-369: the shift and the record, p2 and m2 being the scaled patch
\* and mask.
RandomShift(est, p2, m2, angle, sc, u, shift_max_h, shift_max_w) ==
    IF RLt(RInt(0), shift_max_h) /\ RLt(RInt(0), shift_max_w)
    THEN Ok([patch |-> _shift(est, p2, RMul(RInt(u[1]), shift_max_h),
                              RMul(RInt(u[2]), shift_max_w))[1],
             patch_mask |-> _shift(est, m2, RMul(RInt(u[1]), shift_max_h),
                                   RMul(RInt(u[2]), shift_max_w))[1],
             transformation |->
                 ("rotate" :> angle) @@ ("scale" :> sc) @@
                 ("shift_1" :> _shift(est, m2, RMul(RInt(u[1]), shift_max_h),
                                      RMul(RInt(u[2]), shift_max_w))[2]) @@
                 ("shift_2" :> _shift(est, m2, RMul(RInt(u[1]), shift_max_h),
                                      RMul(RInt(u[2]), shift_max_w))[3])])
    ELSE Ok([patch |-> p2, patch_mask |-> m2,
             transformation |->
                 ("rotate" :> angle) @@ ("scale" :> sc) @@ ("shift" :> <<0, 0, 0>>)])

\* Lines 352-358, p2 and m2 being the outcomes of the two calls of _scale.
RandomScaled(est, att, p2, m2, angle, sc, u) ==
    IF ~p2.ok THEN p2
    ELSE IF ~m2.ok THEN m2
    ELSE RandomShift(est, p2.val, m2.val, angle, sc, u,
                     ShiftMax(est, att, att.i_h, sc), ShiftMax(est, att, att.i_w, sc))

\* Lines 343-354, m being the mask and sc the scale used.
RandomRotated(est, att, p, m, angle, sc, u) ==
    RandomScaled(est, att, _scale(est, att, _rotate(att, p, angle), sc),
                 _scale(est, att, _rotate(att, m, angle), sc), angle, sc, u)

\* Lines 341-351, m being the outcome of _get_circular_patch_mask.
RandomMasked(est, att, p, scale, rnd, m) ==
    IF ~m.ok THEN m
    ELSE RandomRotated(est, att, p, m.val, rnd.angle,
                       IF scale = NoScale THEN rnd.scale ELSE scale, rnd.u)

\* _random_transformation, lines 339-369.
_random_transformation(est, att, p, scale, rnd) ==
    RandomMasked(est, att, p, scale, rnd, _get_circular_patch_mask(est, att))

\* Whether two shapes combine in an elementwise numpy operation.
SameOrOne(a, b) ==
    /\ Len(a) = Len(b)
    /\ \A i \in 1..Len(a) : a[i] = b[i] \/ a[i] = 1 \/ b[i] = 1

\* Lines 260-278, trs[i] being the outcome of _random_transformation for image
\* i.  The outcome carries the number of calls of _random_transformation made.
Augmented(est, n, trs) ==
    LET bad == {i \in 1..n : \/ ~trs[i].ok
                             \/ ~SameOrOne(est.input_shape, trs[i].val.patch_mask.shape)
                             \/ ~SameOrOne(trs[i].val.patch.shape,
                                           trs[i].val.patch_mask.shape)}
        i == CHOOSE j \in bad : \A k \in bad : j <= k
    IN  IF bad # {}
        THEN [ok |-> FALSE, calls |-> i,
              err |-> IF trs[i].ok THEN "ValueError: operands could not be broadcast"
                      ELSE trs[i].err]
        ELSE IF n = 0
        THEN [ok |-> FALSE, calls |-> 0,
              err |-> "ValueError: need at least one array to concatenate"]
        ELSE [ok |-> TRUE, calls |-> n,
              patched_images |-> [j \in 1..n |->
                  [shape |-> est.input_shape, image |-> j, patch |-> trs[j].val.patch,
                   patch_mask |-> trs[j].val.patch_mask]],
              patch_mask_transformed |-> [j \in 1..n |-> trs[j].val.patch_mask],
              transformations |-> [j \in 1..n |-> trs[j].val.transformation]]

\* _augment_images_with_random_patch, lines 252-278, on n images of the
\* classifier's input shape; rnds[i] are the draws for image i.
_augment_images_with_random_patch(est, att, n, p, scale, rnds) ==
    Augmented(est, n, [i \in 1..n |-> _random_transformation(est, att, p, scale, rnds[i])])

\* Lines 381-386, g3 being the outcome of the call of _scale.
ReverseScaled(att, g3, transformation) ==
    IF ~g3.ok THEN g3
    ELSE IF "rotate" \notin DOMAIN transformation THEN Err("KeyError: rotate")
    ELSE Ok(_rotate(att, g3.val, -transformation["rotate"]))

\* _reverse_transformation, lines 371-386.
_reverse_transformation(est, att, gradients, patch_mask_transformed, transformation) ==
    IF ~SameOrOne(gradients.shape, patch_mask_transformed.shape)
    THEN Err("ValueError: operands could not be broadcast")
    ELSE IF "shift_h" \notin DOMAIN transformation THEN Err("KeyError: shift_h")
    ELSE IF "shift_w" \notin DOMAIN transformation THEN Err("KeyError: shift_w")
    ELSE IF "scale" \notin DOMAIN transformation THEN Err("KeyError: scale")
    ELSE IF transformation["scale"][1] = 0 THEN Err("ZeroDivisionError")
    ELSE ReverseScaled(att,
             _scale(est, att,
                    _shift(est, [gradients EXCEPT !.ops = Append(@, [op |-> "mask"])],
                           RNeg(transformation["shift_h"]),
                           RNeg(transformation["shift_w"]))[1],
                    RDiv(RInt(1), transformation["scale"])),
             transformation)

(***************************************************************************)
(* generate, lines 130-172.                                                 *)
(***************************************************************************)
\* The values a gradient of the classifier takes.  A gradient image is
\* uniform: every pixel holds g.
GradValues == {-1, 1}

GradTensor(est, g) == [shape |-> est.input_shape, leaf |-> [kind |-> "grad", v |-> g],
                       ops |-> <<>>]

\* The pixel values of a gradient mapped back to patch space: the resampling
\* is recorded in ops, the amplitude of the uniform gradient is kept.
Values(att, t) == [i \in 1..NumPix(att.patch_shape) |-> t.leaf.v]

\* patch_gradients += patch_gradients_i, for one pixel: f[1] + ... + f[k].
RECURSIVE SumTo(_, _)
SumTo(f, k) == IF k = 0 THEN 0 ELSE SumTo(f, k - 1) + f[k]

Zeros(att) == [i \in 1..NumPix(att.patch_shape) |-> 0]

\* Lines 151-170, aug being the successful outcome of line 149 and revs[k]
\* the outcome of the k-th call of _reverse_transformation.
Accumulated(est, att, p, B, num_batches, aug, revs) ==
    LET bad == {k \in 1..(num_batches * B) :
                    ~revs[k].ok \/ ~Broadcastable(revs[k].val.shape, att.patch_shape)}
        first == CHOOSE j \in bad : \A k \in bad : j <= k
        done == IF bad = {} THEN num_batches * B ELSE first - 1
        buffer == [i \in 1..NumPix(att.patch_shape) |->
                      SumTo([k \in 1..done |-> Values(att, revs[k].val)[i]], done)]
    IN  IF bad # {}
        THEN [ok |-> FALSE,
              err |-> IF revs[first].ok THEN "ValueError: operands could not be broadcast"
                      ELSE revs[first].err,
              calls |-> aug.calls, queries |-> ((first - 1) \div B) + 1,
              transformations |-> aug.transformations, patch_gradients |-> buffer,
              patch |-> p]
        ELSE [ok |-> TRUE, err |-> "", calls |-> aug.calls, queries |-> num_batches,
              transformations |-> aug.transformations, patch_gradients |-> buffer,
              patch |-> ClipArray([i \in DOMAIN p |-> p[i] - buffer[i] * att.learning_rate],
                                  est.clip_values)]

\* Lines 151-166, aug being the outcome of line 149.  The k-th call of
\* _reverse_transformation is for image ((k-1) % B) + 1 of batch
\* ((k-1) \div B) + 1; the mask and the record are indexed by i_image, the
\* index within the batch.
Batches(est, att, p, n, G, aug) ==
    IF ~aug.ok
    THEN [ok |-> FALSE, err |-> aug.err, calls |-> aug.calls, queries |-> 0,
          transformations |-> <<>>, patch_gradients |-> Zeros(att), patch |-> p]
    ELSE Accumulated(est, att, p, att.batch_size, n \div att.batch_size, aug,
             [k \in 1..((n \div att.batch_size) * att.batch_size) |->
                 _reverse_transformation(
                     est, att,
                     GradTensor(est, G[((k - 1) \div att.batch_size) + 1]
                                      [((k - 1) % att.batch_size) + 1]),
                     aug.patch_mask_transformed[((k - 1) % att.batch_size) + 1],
                     aug.transformations[((k - 1) % att.batch_size) + 1])])

\* One iteration of the loop of line 148.  rnds are the draws of the
\* transformations, G[b][i] the gradient of image i of batch b.  The outcome
\* holds what the iteration did up to its end or up to the exception.
Iteration(est, att, p, n, rnds, G) ==
    Batches(est, att, p, n, G,
            _augment_images_with_random_patch(
                est, att, n,
                [shape |-> att.patch_shape, leaf |-> [kind |-> "patch", v |-> p],
                 ops |-> <<>>],
                NoScale, rnds))

\* The inputs of generate: the number of dimensions of x and its image count.
Inputs == [ndim : {2, 4}, n : 0..MaxN]

\* Line 140: len(x.shape) == 2.
FeatureVectorsNever(xx) == FALSE

FeatureVectors(xx) == xx.ndim = 2

\* generate is called: lines 138-146.
Generate ==
    /\ pc = "constructed"
    /\ \E xx \in Inputs :
         /\ x' = xx
         /\ IF FeatureVectors(xx)
            THEN /\ pc' = "error"
                 /\ raised' = "ValueError: feature vectors detected"
            ELSE /\ pc' = "running"
                 /\ raised' = ""
    /\ UNCHANGED <<estimator, attack, patch, iter, queries, sampled, transforms,
                   patch_gradients, returned>>
    /\ UNCHANGED deepVars

\* One iteration of the loop, lines 148-170.
Iterate ==
    /\ pc = "running"
    /\ iter < attack.max_iter
    /\ \E rnds \in [1..x.n -> Draws(attack)],
          G \in [1..(x.n \div attack.batch_size) -> [1..attack.batch_size -> GradValues]] :
         LET out == Iteration(estimator, attack, patch, x.n, rnds, G)
         IN  /\ sampled' = sampled + out.calls
             /\ queries' = queries + out.queries
             /\ transforms' = out.transformations
             /\ patch_gradients' = out.patch_gradients
             /\ patch' = out.patch
             /\ raised' = out.err
             /\ pc' = IF out.ok THEN "running" ELSE "error"
             /\ iter' = IF out.ok THEN iter + 1 ELSE iter
    /\ UNCHANGED <<estimator, attack, x, returned>>
    /\ UNCHANGED deepVars

\* The loop is over: line 172 returns the patch and its mask.
Return ==
    /\ pc = "running"
    /\ iter = attack.max_iter
    /\ LET m == _get_circular_patch_mask(estimator, attack)
       IN  IF m.ok
           THEN /\ pc' = "done"
                /\ returned' = <<patch, m.val>>
                /\ raised' = ""
           ELSE /\ pc' = "error"
                /\ returned' = <<>>
                /\ raised' = m.err
    /\ UNCHANGED <<estimator, attack, patch, x, iter, queries, sampled, transforms,
                   patch_gradients>>
    /\ UNCHANGED deepVars

\* No certifier exists while the attack is examined.
NoCertifier ==
    /\ network = <<>>
    /\ model = <<>>
    /\ pcz = "none"
    /\ convert_error = ""
    /\ last = <<>>

\* The attack object after __init__ with accepted parameters.
InitPatch ==
    /\ NoCertifier
    /\ estimator \in Estimators
    /\ attack \in {NewAttack(estimator, p) : p \in {q \in ParamSpace : _check_params(q)}}
    /\ patch = InitialPatch(estimator, attack)
    /\ pc = "constructed"
    /\ x = [ndim |-> 4, n |-> 0]
    /\ iter = 0
    /\ queries = 0
    /\ sampled = 0
    /\ transforms = <<>>
    /\ patch_gradients = Zeros(attack)
    /\ raised = ""
    /\ returned = <<>>

NextPatch == Generate \/ Iterate \/ Return

SpecPatch == InitPatch /\ [][NextPatch]_vars

(***************************************************************************)
(* Properties of AdversarialPatchNumpy, checked under SpecPatch.            *)
(***************************************************************************)
\* The keys _reverse_transformation reads from a record (lines 375-384).
ReverseReads == {"shift_h", "shift_w", "scale", "rotate"}

\* C1: every transformation record sampled by _random_transformation holds
\* every key _reverse_transformation reads, and generate never ends in a
\* KeyError raised while inverting a record of the same iteration.
C1_RecordSuffices ==
    /\ \A i \in DOMAIN transforms : ReverseReads \subseteq DOMAIN transforms[i]
    /\ raised \notin {"KeyError: shift_h", "KeyError: shift_w",
                      "KeyError: scale", "KeyError: rotate"}

\* C2: the stored patch lies elementwise within [clip_min, clip_max], at
\* construction and after every iteration of generate.
C2_PatchWithinClip ==
    \A i \in DOMAIN patch :
        estimator.clip_values[1] <= patch[i] /\ patch[i] <= estimator.clip_values[2]

\* C2 witness: an iteration of generate has completed.
C2_Witness == pc = "running" /\ iter >= 1 /\ x.n >= 1

\* C3: a run of generate with max_iter = 1 and batch_size = 1 on a single
\* image (height x width x channels layout) makes exactly one gradient query
\* and returns clip(initial patch - learning_rate * G), G being the
\* accumulated mapped gradient.
C3_SingleStepUpdate ==
    (/\ ~estimator.channels_first
     /\ x.ndim = 4 /\ x.n = 1
     /\ attack.max_iter = 1 /\ attack.batch_size = 1
     /\ pc \in {"done", "error"})
    => /\ pc = "done"
       /\ queries = 1
       /\ patch = ClipArray([i \in DOMAIN patch |->
                                InitialPatch(estimator, attack)[i]
                                - attack.learning_rate * patch_gradients[i]],
                            estimator.clip_values)
       /\ returned # <<>> /\ returned[1] = patch

\* C4: on an input with spatial dimensions generate does not fail, and when
\* it is done it has performed exactly max_iter iterations and returned the
\* final patch with its mask.
C4_GenerateCompletes ==
    /\ (~estimator.channels_first /\ x.ndim = 4 /\ x.n >= attack.batch_size)
       => pc # "error"
    /\ pc = "done" => /\ iter = attack.max_iter
                      /\ returned = <<patch, _get_circular_patch_mask(estimator, attack).val>>

\* C10: generate called with a 2-dimensional input ends in the feature-vector
\* ValueError with no transformation sampled, no gradient query made and the
\* patch as it was constructed.
C10_FlatInputRejected ==
    x.ndim = 2 =>
        /\ pc = "error"
        /\ raised = "ValueError: feature vectors detected"
        /\ sampled = 0
        /\ queries = 0
        /\ transforms = <<>>
        /\ patch = InitialPatch(estimator, attack)
        /\ returned = <<>>

\* C10 witness: generate was called with a 2-dimensional input.
C10_Witness == x.ndim = 2 /\ pc = "error"

(***************************************************************************)
(* ConvertedModel and PytorchDeepZ (deep_z/pytorch.py).                     *)
(*                                                                          *)
(* A tensor is [sp, rows]: sp tells whether it still has its spatial axes   *)
(* (N x C x 1 x 1, images of one pixel, so that a convolution with a 1 x 1  *)
(* kernel is a linear map of the channels) or is flat (N x C); rows[i] is   *)
(* the vector of row i.  In an abstract pass row 1 is the zonotope center   *)
(* and the other rows are the error terms.                                  *)
(***************************************************************************)
\* The number of classes of the classifier, which is also the number of
\* channels and of features of every layer of the model.
nb_classes == 3

RECURSIVE RSum(_)
RSum(s) == IF s = <<>> THEN RInt(0) ELSE RAdd(Head(s), RSum(Tail(s)))

\* The product of an integer matrix and a rational vector.
MatVec(W, v) == [i \in 1..Len(W) |-> RSum([j \in 1..Len(v) |-> RMul(RInt(W[i][j]), v[j])])]

VAdd(a, b) == [j \in 1..Len(a) |-> RAdd(a[j], RInt(b[j]))]

\* The parameters a network holds: one weight matrix and bias per kind of
\* linear layer, in two variants.
WeightSets ==
    {[conv |-> [weight |-> <<<<1, 0, 0>>, <<0, 1, 0>>, <<0, 0, 1>>>>, bias |-> <<0, 0, 0>>],
      dense |-> [weight |-> <<<<1, -1, 0>>, <<0, 1, 0>>, <<0, 0, 1>>>>, bias |-> <<1, 0, 0>>]],
     [conv |-> [weight |-> <<<<1, 0, 0>>, <<0, 1, 0>>, <<0, 1, 1>>>>, bias |-> <<0, 0, 1>>],
      dense |-> [weight |-> <<<<1, 0, -1>>, <<-1, 1, 0>>, <<0, 0, 2>>>>, bias |-> <<0, -1, 0>>]]}

\* The kinds of torch modules: Conv2d, Linear, ReLU and any other module.
Kinds == {"conv", "dense", "relu", "other"}

\* The modules the forward hooks record, in the order they are executed.
LayerSeqs == UNION {[1..n -> Kinds] : n \in 1..MaxLayers}

\* A torch module: its kind and, for a linear layer, its weight and bias.
Module(kind, w) ==
    IF kind \in {"conv", "dense"}
    THEN [kind |-> kind, weight |-> w[kind].weight, bias |-> w[kind].bias]
    ELSE [kind |-> kind, weight |-> <<>>, bias |-> <<>>]

\* The networks handed to the certifier.  The input has spatial axes unless
\* the first layer is a dense layer.
Networks ==
    {[modules |-> [i \in 1..Len(ks) |-> Module(ks[i], w)],
      channels_first |-> cf,
      input_shape |-> IF ks[1] = "dense" THEN <<nb_classes>> ELSE <<nb_classes, 1, 1>>] :
        ks \in LayerSeqs, w \in WeightSets, cf \in BOOLEAN}

(***************************************************************************)
(* The abstract layers of deep_z.py (spec section 4.4).                     *)
(***************************************************************************)
\* Dense and convolution, abstract mode: the linear operator on every row,
\* the bias on the center row only.
LinearAbstract(op, rows) ==
    [i \in 1..Len(rows) |->
        IF i = 1 THEN VAdd(MatVec(op.weight, rows[i]), op.bias)
        ELSE MatVec(op.weight, rows[i])]

\* Dense and convolution, concrete mode: operator and bias on every row.
LinearConcrete(op, rows) ==
    [i \in 1..Len(rows) |-> VAdd(MatVec(op.weight, rows[i]), op.bias)]

\* The interval bounds of dimension j of a zonotope: center -/+ sum |error|.
Radius(rows, j) == RSum([i \in 1..(Len(rows) - 1) |-> RAbs(rows[i + 1][j])])

LowerBound(rows, j) == RSub(rows[1][j], Radius(rows, j))

UpperBound(rows, j) == RAdd(rows[1][j], Radius(rows, j))

\* The slope and the center shift of the linearization of a dimension that
\* straddles zero, with bounds l < 0 < u.
Slope(l, u) == RDiv(u, RSub(u, l))

Shift(l, u) == RDiv(RNeg(RMul(Slope(l, u), l)), RInt(2))

\* ReLU, abstract mode, lb and ub being the bounds of the dimensions: a
\* non-negative dimension passes, a non-positive one is zeroed, a straddling
\* one is scaled by the slope, its center shifted, and gets a new error term.
ReLUBounded(rows, lb, ub) ==
    LET n == Len(rows[1])
        crossing == SelectSeq([j \in 1..n |-> j],
                              LAMBDA j : RLt(lb[j], RInt(0)) /\ RLt(RInt(0), ub[j]))
        old == [i \in 1..Len(rows) |-> [j \in 1..n |->
                   IF RLeq(ub[j], RInt(0)) THEN RInt(0)
                   ELSE IF RLeq(RInt(0), lb[j]) THEN rows[i][j]
                   ELSE IF i = 1
                        THEN RAdd(RMul(Slope(lb[j], ub[j]), rows[i][j]), Shift(lb[j], ub[j]))
                        ELSE RMul(Slope(lb[j], ub[j]), rows[i][j])]]
        new == [k \in 1..Len(crossing) |-> [j \in 1..n |->
                   IF j = crossing[k] THEN Shift(lb[j], ub[j]) ELSE RInt(0)]]
    IN  old \o new

ZonoReLU(rows) ==
    ReLUBounded(rows, [j \in 1..Len(rows[1]) |-> LowerBound(rows, j)],
                [j \in 1..Len(rows[1]) |-> UpperBound(rows, j)])

\* ReLU, concrete mode: max(0, x).
ReLUConcrete(rows) ==
    [i \in 1..Len(rows) |-> [j \in 1..Len(rows[i]) |->
        IF RLt(rows[i][j], RInt(0)) THEN RInt(0) ELSE rows[i][j]]]

\* One layer applied to a tensor.  A convolution needs the spatial axes, a
\* dense layer of nb_classes features needs a flat tensor.
ApplyOp(op, t, abstract) ==
    IF op.type = "ZonoConv"
    THEN IF ~t.sp THEN Err("RuntimeError: conv2d expects an input with spatial axes")
         ELSE Ok([t EXCEPT !.rows = IF abstract THEN LinearAbstract(op, t.rows)
                                    ELSE LinearConcrete(op, t.rows)])
    ELSE IF op.type = "ZonoDenseLayer"
    THEN IF t.sp THEN Err("RuntimeError: shapes cannot be multiplied")
         ELSE Ok([t EXCEPT !.rows = IF abstract THEN LinearAbstract(op, t.rows)
                                    ELSE LinearConcrete(op, t.rows)])
    ELSE Ok([t EXCEPT !.rows = IF abstract THEN ZonoReLU(t.rows) ELSE ReLUConcrete(t.rows)])

\* certify_via_subtraction (spec section 4.6): the lower bound of
\* logit[predicted_class] - logit[class_to_consider] is > 0.  Classes are
\* numbered from 0.
SubtractionLowerBound(predicted_class, class_to_consider, cent, eps) ==
    RSub(RSub(cent[predicted_class + 1], cent[class_to_consider + 1]),
         RSum([i \in 1..Len(eps) |->
                  RAbs(RSub(eps[i][predicted_class + 1], eps[i][class_to_consider + 1]))]))

certify_via_subtraction(predicted_class, class_to_consider, cent, eps) ==
    RLt(RInt(0), SubtractionLowerBound(predicted_class, class_to_consider, cent, eps))

(***************************************************************************)
(* ConvertedModel.__init__, lines 45-104.                                   *)
(***************************************************************************)
\* The abstract layer made from a module, lines 70-90.
ZonoOp(module) ==
    [type |-> IF module.kind = "conv" THEN "ZonoConv"
              ELSE IF module.kind = "dense" THEN "ZonoDenseLayer" ELSE "ZonoReLU",
     weight |-> module.weight, bias |-> module.bias]

Supported(module) == module.kind \in {"conv", "dense", "relu"}

\* A conversion that leaves out the modules it does not support.
ConvertSkipping(modules) ==
    Ok([i \in 1..Len(SelectSeq(modules, Supported)) |->
           ZonoOp(SelectSeq(modules, Supported)[i])])

\* Lines 67-92: the loop over the recorded modules.
ConvertModules(modules) ==
    IF \E i \in 1..Len(modules) : ~Supported(modules[i])
    THEN Err("ValueError: Supported Operations are Conv2D, Linear, and RelU")
    ELSE Ok([i \in 1..Len(modules) |-> ZonoOp(modules[i])])

\* self.ops[i] of a ModuleList: a negative index counts from the end.
OpAt(ops, i) == ops[(IF i < 0 THEN i + Len(ops) ELSE i) + 1]

\* Lines 96-104: whether the loop assigns reshape_op_num at op_num.
AssignsReshape(ops, op_num) ==
    /\ OpAt(ops, op_num).type = "ZonoDenseLayer"
    /\ \/ OpAt(ops, op_num - 1).type = "ZonoConv"
       \/ /\ OpAt(ops, op_num - 1).type = "ZonoReLU"
          /\ OpAt(ops, op_num - 2).type = "ZonoConv"

\* The attribute reshape_op_num after the loop of lines 94-104: <<>> when it
\* was never assigned, else <<n>>, n being the last op_num that assigned it.
InferReshape(ops) ==
    LET assigned == {op_num \in 0..(Len(ops) - 1) : AssignsReshape(ops, op_num)}
    IN  IF assigned = {} THEN <<>>
        ELSE <<CHOOSE n \in assigned : \A k \in assigned : k <= n>>

\* The object when __init__ raised: there is none.
NoModel == [forward_mode |-> "", ops |-> <<>>, reshape_op_num |-> <<>>]

\* Lines 67-104, ops being the outcome of the loop over the modules.
Converted(ops) ==
    IF ~ops.ok THEN ops
    ELSE Ok([forward_mode |-> "abstract", ops |-> ops.val,
             reshape_op_num |-> InferReshape(ops.val)])

\* ConvertedModel.__init__, lines 45-104.
ConvertedModel(net) ==
    IF ~net.channels_first
    THEN Err("ValueError: Please provide data in channels first format")
    ELSE Converted(ConvertModules(net.modules))

(***************************************************************************)
(* The forward passes, lines 106-164, and PytorchDeepZ, lines 255-304.      *)
(***************************************************************************)
\* eps=None of ConvertedModel.forward.
None == <<>>

\* Lines 139-143 and 159-163: the loop over the ops from op_num on.  reshaped
\* holds the op_nums at which the tensor was flattened so far.  Reading
\* reshape_op_num raises when the attribute was never assigned.
RECURSIVE RunOps(_, _, _, _, _)
RunOps(m, t, op_num, abstract, reshaped) ==
    IF op_num = Len(m.ops)
    THEN [ok |-> TRUE, val |-> t, reshaped |-> reshaped]
    ELSE IF m.reshape_op_num = <<>>
    THEN [ok |-> FALSE, reshaped |-> reshaped,
          err |-> "AttributeError: ConvertedModel has no attribute reshape_op_num"]
    ELSE LET flat == m.reshape_op_num = <<op_num>>
             y == ApplyOp(m.ops[op_num + 1], IF flat THEN [t EXCEPT !.sp = FALSE] ELSE t,
                          abstract)
             tr == IF flat THEN Append(reshaped, op_num) ELSE reshaped
         IN  IF ~y.ok THEN [ok |-> FALSE, reshaped |-> tr, err |-> y.err]
             ELSE RunOps(m, y.val, op_num + 1, abstract, tr)

\* An abstract pass that loses the first error term of its result.
AbstractResultDropping(run) ==
    IF ~run.ok THEN run
    ELSE [ok |-> TRUE, pass |-> "abstract", reshaped |-> run.reshaped,
          val |-> <<run.val.rows[1], Tail(Tail(run.val.rows))>>]

\* Line 145: x[0, :], x[1:, :], run being the outcome of the loop.
AbstractResult(run) ==
    IF ~run.ok THEN run
    ELSE [ok |-> TRUE, pass |-> "abstract", reshaped |-> run.reshaped,
          val |-> <<run.val.rows[1], Tail(run.val.rows)>>]

\* abstract_forward, lines 125-145: cent is a tensor of one row, eps the
\* rows of the error terms.
abstract_forward(m, cent, eps) ==
    AbstractResult(RunOps(m, [cent EXCEPT !.rows = @ \o eps], 0, TRUE, <<>>))

\* Line 164, run being the outcome of the loop.
ConcreteResult(run) ==
    IF ~run.ok THEN run
    ELSE [ok |-> TRUE, pass |-> "concrete", reshaped |-> run.reshaped, val |-> run.val.rows]

\* concrete_forward, lines 147-164.
concrete_forward(m, in_x) == ConcreteResult(RunOps(m, in_x, 0, FALSE, <<>>))

\* A forward that runs the abstract pass whenever the mode is not concrete.
ForwardDefaultingToAbstract(m, cent, eps) ==
    IF m.forward_mode = "concrete" THEN concrete_forward(m, cent)
    ELSE abstract_forward(m, cent, eps)

\* ConvertedModel.forward, lines 106-123.
ConvertedModel_forward(m, cent, eps) ==
    IF m.forward_mode = "concrete" THEN concrete_forward(m, cent)
    ELSE IF m.forward_mode = "abstract" /\ eps # None THEN abstract_forward(m, cent, eps)
    ELSE [ok |-> FALSE, reshaped |-> <<>>,
          err |-> "ValueError: forward_mode must be set to abstract or concrete"]

\* Line 264: out_cent, out_eps = ..., r being what self.model.forward gave.
\* A tensor unpacks along its first axis.
Unpacked(r) ==
    IF ~r.ok THEN r
    ELSE IF r.pass = "abstract" THEN r
    ELSE IF Len(r.val) < 2
    THEN [ok |-> FALSE, reshaped |-> r.reshaped,
          err |-> "ValueError: not enough values to unpack"]
    ELSE IF Len(r.val) > 2
    THEN [ok |-> FALSE, reshaped |-> r.reshaped,
          err |-> "ValueError: too many values to unpack"]
    ELSE [r EXCEPT !.val = <<r.val[1], r.val[2]>>]

\* PytorchDeepZ.forward, lines 255-265.
PytorchDeepZ_forward(m, cent, eps) == Unpacked(ConvertedModel_forward(m, cent, eps))

\* Lines 293-304, f being the outcome of self.forward.  A concrete result
\* unpacked into two rows has a one-dimensional eps, which eps[:, k] rejects.
Certified(f, prediction) ==
    IF ~f.ok THEN f
    ELSE IF f.pass = "concrete"
    THEN [ok |-> FALSE, reshaped |-> f.reshaped, err |-> "IndexError: too many indices"]
    ELSE [f EXCEPT !.val =
             \A k \in 0..(nb_classes - 1) :
                 k # prediction => certify_via_subtraction(prediction, k, f.val[1], f.val[2])]

\* PytorchDeepZ.certify, lines 276-304.
certify(m, cent, eps, prediction) == Certified(PytorchDeepZ_forward(m, cent, eps), prediction)

\* The modes handed to set_forward_mode.
Modes == {"concrete", "abstract", "training"}

IntVec(v) == [j \in 1..Len(v) |-> RInt(v[j])]

\* The input zonotopes: a center and the rows of its error terms.
Zonotopes ==
    {[cent |-> IntVec(<<0, 0, 0>>), eps |-> <<IntVec(<<1, 1, 0>>)>>],
     [cent |-> IntVec(<<4, 0, -1>>), eps |-> <<IntVec(<<1, 0, 0>>), IntVec(<<0, 1, 0>>)>>],
     [cent |-> IntVec(<<1, -1, 2>>), eps |-> <<IntVec(<<0, 2, 0>>)>>]}

\* A batch of row vectors in the input shape of the network.
Tensor(net, rows) == [sp |-> Len(net.input_shape) = 3, rows |-> rows]

\* A call on the certifier, as the variable last records it.
Call(op, mode, cent, eps, prediction, out) ==
    [op |-> op, mode |-> mode, cent |-> cent, eps |-> eps, prediction |-> prediction,
     out |-> out]

NoCall == Call("none", "", <<>>, <<>>, 0, <<>>)

\* No attack exists while the certifier is examined.
NoAttack ==
    /\ estimator = <<>>
    /\ attack = <<>>
    /\ patch = <<>>
    /\ pc = "none"
    /\ x = <<>>
    /\ iter = 0
    /\ queries = 0
    /\ sampled = 0
    /\ transforms = <<>>
    /\ patch_gradients = <<>>
    /\ raised = ""
    /\ returned = <<>>

\* PytorchDeepZ.__init__, line 221: the network is converted.
Convert ==
    /\ pcz = "new"
    /\ LET c == ConvertedModel(network)
       IN  /\ pcz' = IF c.ok THEN "converted" ELSE "failed"
           /\ model' = IF c.ok THEN c.val ELSE NoModel
           /\ convert_error' = IF c.ok THEN "" ELSE c.err
    /\ UNCHANGED <<network, last>>
    /\ UNCHANGED patchVars

\* set_forward_mode, lines 267-274.
SetForwardMode ==
    /\ pcz = "converted"
    /\ \E mode \in Modes :
         IF mode \in {"concrete", "abstract"}
         THEN /\ model' = [model EXCEPT !.forward_mode = mode]
              /\ last' = Call("set_forward_mode", mode, <<>>, <<>>, 0, [ok |-> TRUE])
         ELSE /\ model' = model
              /\ last' = Call("set_forward_mode", mode, <<>>, <<>>, 0,
                              [ok |-> FALSE, err |-> "AssertionError"])
    /\ UNCHANGED <<network, pcz, convert_error>>
    /\ UNCHANGED patchVars

\* ConvertedModel.forward is called, with or without error terms.
ModelForward ==
    /\ pcz = "converted"
    /\ \E z \in Zonotopes, eps \in BOOLEAN :
         last' = Call("model_forward", model.forward_mode, Tensor(network, <<z.cent>>),
                      IF eps THEN z.eps ELSE None, 0,
                      ConvertedModel_forward(model, Tensor(network, <<z.cent>>),
                                             IF eps THEN z.eps ELSE None))
    /\ UNCHANGED <<network, model, pcz, convert_error>>
    /\ UNCHANGED patchVars

\* PytorchDeepZ.forward is called.
Forward ==
    /\ pcz = "converted"
    /\ \E z \in Zonotopes :
         last' = Call("forward", model.forward_mode, Tensor(network, <<z.cent>>), z.eps, 0,
                      PytorchDeepZ_forward(model, Tensor(network, <<z.cent>>), z.eps))
    /\ UNCHANGED <<network, model, pcz, convert_error>>
    /\ UNCHANGED patchVars

\* PytorchDeepZ.certify is called.
Certify ==
    /\ pcz = "converted"
    /\ \E z \in Zonotopes, prediction \in 0..(nb_classes - 1) :
         last' = Call("certify", model.forward_mode, Tensor(network, <<z.cent>>), z.eps,
                      prediction,
                      certify(model, Tensor(network, <<z.cent>>), z.eps, prediction))
    /\ UNCHANGED <<network, model, pcz, convert_error>>
    /\ UNCHANGED patchVars

\* A network is about to be handed to PytorchDeepZ.
InitDeepZ ==
    /\ NoAttack
    /\ network \in Networks
    /\ model = NoModel
    /\ pcz = "new"
    /\ convert_error = ""
    /\ last = NoCall

NextDeepZ == Convert \/ SetForwardMode \/ ModelForward \/ Forward \/ Certify

SpecDeepZ == InitDeepZ /\ [][NextDeepZ]_vars

(***************************************************************************)
(* Properties of ConvertedModel and PytorchDeepZ, checked under SpecDeepZ.  *)
(***************************************************************************)
\* The decision claimed for certify on an output zonotope: every class other
\* than the prediction has a lower bound of logit[prediction] - logit[k] > 0.
AllLowerBoundsPositive(cent, eps, prediction) ==
    \A k \in 0..(nb_classes - 1) :
        k # prediction => RLt(RInt(0), SubtractionLowerBound(prediction, k, cent, eps))

\* C5: whenever the abstract forward pass of the converted model yields an
\* output zonotope for the inputs of a certify call, that call returns a
\* boolean, and it returns true if and only if, for every class k other than
\* the prediction, the lower bound of logit[prediction] - logit[k] (center
\* difference minus the sum of the absolute error-term differences) is
\* strictly greater than 0.
C5_CertifyDecision ==
    (/\ last.op = "certify"
     /\ abstract_forward(model, last.cent, last.eps).ok)
    => /\ last.out.ok
       /\ last.out.val =
              AllLowerBoundsPositive(abstract_forward(model, last.cent, last.eps).val[1],
                                     abstract_forward(model, last.cent, last.eps).val[2],
                                     last.prediction)

\* The coefficients tried for each error term of an input zonotope.
Coefficients == {Rat(-1, 1), Rat(-1, 2), Rat(0, 1), Rat(1, 2), Rat(1, 1)}

\* cent + e[1] * eps[1] + ... + e[m] * eps[m].
Combination(cent, eps, e) ==
    [j \in 1..Len(cent) |->
        RAdd(cent[j], RSum([i \in 1..Len(eps) |-> RMul(e[i], eps[i][j])]))]

\* Concrete inputs inside the zonotope: the center plus a combination of the
\* error terms with coefficients in [-1, 1].
ZonotopePoints(cent, eps) ==
    {Combination(cent, eps, e) : e \in [1..Len(eps) -> Coefficients]}

\* Concrete inputs inside the bounds of the zonotope: in every dimension the
\* lower bound, the center or the upper bound.
BoxPoints(cent, eps) ==
    {p \in [1..Len(cent) -> UNION {{LowerBound(<<cent>> \o eps, j), cent[j],
                                    UpperBound(<<cent>> \o eps, j)} : j \in 1..Len(cent)}] :
        \A j \in 1..Len(cent) :
            p[j] \in {LowerBound(<<cent>> \o eps, j), cent[j], UpperBound(<<cent>> \o eps, j)}}

\* Whether the vector v lies within center -/+ sum |error terms| of an output
\* zonotope in every dimension.
Within(v, out_cent, out_eps) ==
    \A j \in 1..Len(v) :
        RLeq(RAbs(RSub(v[j], out_cent[j])), Radius(<<out_cent>> \o out_eps, j))

\* Whether the concrete pass on every point of points ends within the
\* output zonotope of the abstract pass recorded in last.
ConcreteWithin(points) ==
    \A p \in points :
        /\ concrete_forward(model, [last.cent EXCEPT !.rows = <<p>>]).ok
        /\ Within(concrete_forward(model, [last.cent EXCEPT !.rows = <<p>>]).val[1],
                  last.out.val[1], last.out.val[2])

\* The last call was an abstract forward pass that returned.
AbstractPassed ==
    /\ last.op \in {"forward", "model_forward"}
    /\ last.out.ok
    /\ last.out.pass = "abstract"

\* A ReLU fed center [0], error terms [[1]] yields bounds that cover [0, 1].
ReLUUnitCovered ==
    /\ RLeq(LowerBound(ZonoReLU(<<<<RInt(0)>>, <<RInt(1)>>>>), 1), RInt(0))
    /\ RLeq(RInt(1), UpperBound(ZonoReLU(<<<<RInt(0)>>, <<RInt(1)>>>>), 1))

C7_CertifyAbstract ==
    last.op = "certify" =>
        /\ last.out.ok
        /\ last.out.pass = "abstract"
        /\ last.out.val \in BOOLEAN

\* The positions (from 0) of the dense layers immediately preceded by a
\* convolution, or by a ReLU itself immediately preceded by a convolution,
\* looking at earlier positions only.
ReshapePoints(ops) ==
    {i \in 0..(Len(ops) - 1) :
        /\ ops[i + 1].type = "ZonoDenseLayer"
        /\ \/ i >= 1 /\ ops[i].type = "ZonoConv"
           \/ i >= 2 /\ ops[i].type = "ZonoReLU" /\ ops[i - 1].type = "ZonoConv"}

\* C8: every converted model has exactly one reshape index, the position of
\* the first dense layer immediately preceded by a convolution or by a ReLU
\* itself preceded by a convolution, and a forward pass that returns has
\* flattened exactly once, immediately before that layer.
C8_SingleReshape ==
    pcz = "converted" =>
        /\ ReshapePoints(model.ops) # {}
        /\ Len(model.reshape_op_num) = 1
        /\ \A i \in ReshapePoints(model.ops) : model.reshape_op_num[1] <= i
        /\ model.reshape_op_num[1] \in ReshapePoints(model.ops)
        /\ (last.op \in {"forward", "model_forward", "certify"} /\ last.out.ok)
           => last.out.reshaped = model.reshape_op_num

\* The type of the abstract layer that corresponds to a kind of module.
Corresponding(kind) ==
    IF kind = "conv" THEN "ZonoConv"
    ELSE IF kind = "dense" THEN "ZonoDenseLayer"
    ELSE IF kind = "relu" THEN "ZonoReLU" ELSE "none"

\* The converted model holds one abstract layer per executed layer, of the
\* corresponding type and in the same order.
LayerPerLayer ==
    /\ pcz = "converted"
    /\ Len(model.ops) = Len(network.modules)
    /\ \A i \in 1..Len(network.modules) :
           model.ops[i].type = Corresponding(network.modules[i].kind)

\* The conversion failed with the error err and produced no model.
FailedWith(err) ==
    /\ pcz = "failed"
    /\ convert_error = err
    /\ model = NoModel

AllSupported == \A i \in 1..Len(network.modules) : Supported(network.modules[i])

\* C9 as stated: if every executed layer is a convolution, dense or ReLU
\* layer the converted model holds one abstract layer per executed layer;
\* if any is of another type the conversion fails with the
\* unsupported-layer error and no model is produced.
C9_AllOrNothing ==
    pcz # "new" =>
        /\ AllSupported => LayerPerLayer
        /\ ~AllSupported
           => FailedWith("ValueError: Supported Operations are Conv2D, Linear, and RelU")

\* C9 amended: with channels_first set, if every executed layer is a
\* convolution, dense or ReLU layer the converted model holds one abstract
\* layer per executed layer, of the corresponding type and in the same
\* order, and if any is of another type the conversion fails with the
\* unsupported-layer error; without channels_first the conversion fails with
\* the channels-first error whatever the layers; a failed conversion
\* produces no model.
C9_ConversionOutcome ==
    pcz # "new" =>
        /\ (network.channels_first /\ AllSupported) => LayerPerLayer
        /\ (network.channels_first /\ ~AllSupported)
           => FailedWith("ValueError: Supported Operations are Conv2D, Linear, and RelU")
        /\ ~network.channels_first
           => FailedWith("ValueError: Please provide data in channels first format")

\* C9 witness: a conversion met an unsupported layer after a supported one.
C9_Witness ==
    /\ pcz = "failed"
    /\ network.channels_first
    /\ Len(network.modules) >= 2
    /\ Supported(network.modules[1])
    /\ ~AllSupported

(***************************************************************************)
(* AdversarialPatchNumpy.__init__ with arbitrary arguments, lines 64-128.   *)
(* An argument is [type, val]: the Python type of the value and the value   *)
(* (a rational for the scales, an integer otherwise, 0 for a string).       *)
(***************************************************************************)
Arg(type, val) == [type |-> type, val |-> val]

\* The arguments handed to the constructor.
RawParams ==
    [rotation_max : {Arg("int", 0), Arg("float", 180), Arg("int", 181), Arg("float", -1),
                     Arg("str", 0)},
     scale_min : {Arg("float", Rat(0, 1)), Arg("float", Rat(1, 2)), Arg("float", Rat(1, 1)),
                  Arg("float", Rat(-1, 2)), Arg("int", Rat(1, 1)), Arg("str", Rat(0, 1))},
     scale_max : {Arg("float", Rat(1, 2)), Arg("float", Rat(1, 1)), Arg("float", Rat(2, 1)),
                  Arg("int", Rat(1, 1))},
     learning_rate : {Arg("float", 1), Arg("float", 0), Arg("int", 1)},
     max_iter : {Arg("int", 1), Arg("int", 0), Arg("float", 1)},
     batch_size : {Arg("int", 1), Arg("int", 0), Arg("float", 1)}]

\* _check_params, lines 187-218: the message of the first check that raises,
\* "" when none does.
CheckParamsRaises(raw) ==
    IF raw.rotation_max.type \notin {"float", "int"}
    THEN "The maximum rotation of the random patches must be of type float."
    ELSE IF raw.rotation_max.val < 0 \/ raw.rotation_max.val > 180
    THEN "The maximum rotation of the random patches must be between 0 and 180 degrees."
    ELSE IF raw.scale_min.type # "float"
    THEN "The minimum scale of the random patched must be of type float."
    ELSE IF RLt(raw.scale_min.val, RInt(0)) \/ RLt(raw.scale_max.val, raw.scale_min.val)
    THEN "The minimum scale of the random patched must be greater than 0 and less than the maximum scaling."
    ELSE IF raw.scale_max.type # "float"
    THEN "The maximum scale of the random patched must be of type float."
    ELSE IF RLt(RInt(1), raw.scale_max.val)
    THEN "The maximum scale of the random patched must not be greater than 1."
    ELSE IF raw.learning_rate.type # "float"
    THEN "The learning rate must be of type float."
    ELSE IF ~(raw.learning_rate.val > 0)
    THEN "The learning rate must be greater than 0.0."
    ELSE IF raw.max_iter.type # "int"
    THEN "The number of optimization steps must be of type int."
    ELSE IF ~(raw.max_iter.val > 0)
    THEN "The number of optimization steps must be greater than 0."
    ELSE IF raw.batch_size.type # "int"
    THEN "The batch size must be of type int."
    ELSE IF ~(raw.batch_size.val > 0)
    THEN "The batch size must be greater than 0."
    ELSE ""

\* The values of the arguments, as NewAttack takes them.
ParamValues(raw) ==
    [rotation_max |-> raw.rotation_max.val, scale_min |-> raw.scale_min.val,
     scale_max |-> raw.scale_max.val, learning_rate |-> raw.learning_rate.val,
     max_iter |-> raw.max_iter.val, batch_size |-> raw.batch_size.val]

\* __init__, lines 95-128: _check_params raises, or the object is set up.
Construct ==
    /\ pc = "new"
    /\ IF CheckParamsRaises(x) # ""
       THEN /\ pc' = "rejected"
            /\ raised' = CheckParamsRaises(x)
            /\ UNCHANGED <<attack, patch, patch_gradients>>
       ELSE /\ pc' = "constructed"
            /\ raised' = ""
            /\ attack' = NewAttack(estimator, ParamValues(x))
            /\ patch' = InitialPatch(estimator, NewAttack(estimator, ParamValues(x)))
            /\ patch_gradients' = Zeros(NewAttack(estimator, ParamValues(x)))
    /\ UNCHANGED <<estimator, x, iter, queries, sampled, transforms, returned>>
    /\ UNCHANGED deepVars

\* The constructor is about to be called; x holds its arguments.
InitConstruct ==
    /\ NoCertifier
    /\ estimator \in Estimators
    /\ x \in RawParams
    /\ attack = <<>>
    /\ patch = <<>>
    /\ pc = "new"
    /\ iter = 0
    /\ queries = 0
    /\ sampled = 0
    /\ transforms = <<>>
    /\ patch_gradients = <<>>
    /\ raised = ""
    /\ returned = <<>>

SpecConstruct == InitConstruct /\ [][Construct]_vars

\* The conditions under which the arguments are claimed to be rejected.
ClaimedInvalid(raw) ==
    \/ raw.rotation_max.type \notin {"float", "int"}
    \/ raw.rotation_max.val < 0 \/ raw.rotation_max.val > 180
    \/ raw.scale_min.type # "float"
    \/ ~RLt(RInt(0), raw.scale_min.val)
    \/ ~RLt(raw.scale_min.val, raw.scale_max.val)
    \/ raw.scale_max.type # "float"
    \/ RLt(RInt(1), raw.scale_max.val)
    \/ raw.learning_rate.type # "float" \/ ~(raw.learning_rate.val > 0)
    \/ raw.max_iter.type # "int" \/ ~(raw.max_iter.val > 0)
    \/ raw.batch_size.type # "int" \/ ~(raw.batch_size.val > 0)

\* C11: the construction is rejected with an error and no attack object
\* results whenever rotation_max is non-numeric or outside [0, 180],
\* scale_min is non-float, not greater than 0 or not less than scale_max,
\* scale_max is non-float or greater than 1, learning_rate is non-float or
\* not greater than 0, max_iter or batch_size is non-int or not greater
\* than 0.
C11_InvalidRejected ==
    (pc # "new" /\ ClaimedInvalid(x)) =>
        /\ pc = "rejected"
        /\ raised # ""
        /\ attack = <<>>

\* C12: ConvertedModel.forward fails whenever the mode is neither
\* "concrete" nor "abstract", or is "abstract" with no error terms; in mode
\* "concrete" its outcome is that of the concrete pass, in mode "abstract"
\* with error terms that of the abstract pass, a (center, error terms) pair
\* when it returns; the mode is "abstract" after construction and after any
\* calls of set_forward_mode it is "concrete" or "abstract".
C12_ForwardModes ==
    /\ (pcz = "converted" /\ last = NoCall) => model.forward_mode = "abstract"
    /\ pcz = "converted" => model.forward_mode \in {"concrete", "abstract"}
    /\ last.op = "model_forward" =>
           IF last.mode = "concrete"
           THEN last.out = concrete_forward(model, last.cent)
           ELSE IF last.mode = "abstract" /\ last.eps # None
           THEN /\ last.out = abstract_forward(model, last.cent, last.eps)
                /\ last.out.ok => Len(last.out.val) = 2
           ELSE ~last.out.ok
    /\ pcz = "converted" =>
           \A mode \in Modes \ {"concrete", "abstract"}, z \in Zonotopes :
               /\ ~ConvertedModel_forward([model EXCEPT !.forward_mode = mode],
                                          Tensor(network, <<z.cent>>), z.eps).ok
               /\ ~ConvertedModel_forward([model EXCEPT !.forward_mode = mode],
                                          Tensor(network, <<z.cent>>), None).ok

\* C12 witness: forward was called in abstract mode without error terms
\* and failed.
C12_Witness ==
    /\ last.op = "model_forward"
    /\ last.mode = "abstract"
    /\ last.eps = None
    /\ ~last.out.ok

(***************************************************************************)
(* Further properties of AdversarialPatchNumpy, checked under SpecPatch.    *)
(***************************************************************************)
\* The sum of the gradients of the images of the first batches whole
\* batches of size B, G[b][i] being the gradient of image i of batch b.
WholeBatchSum(G, B, batches) ==
    SumTo([k \in 1..(batches * B) |-> G[((k - 1) \div B) + 1][((k - 1) % B) + 1]],
          batches * B)

\* C13: an iteration of generate over N >= 1 images with batch size B issues
\* exactly floor(N/B) gradient queries, each of the first floor(N/B)*B
\* images contributes exactly once to the accumulated patch gradient and
\* the other images contribute nothing; with N < B no query is issued and
\* the patch values are left unchanged.
C13_WholeBatches ==
    (pc = "running" /\ iter < attack.max_iter /\ x.n >= 1) =>
        \A rnds \in [1..x.n -> Draws(attack)],
           G \in [1..(x.n \div attack.batch_size) -> [1..attack.batch_size -> GradValues]] :
            /\ Iteration(estimator, attack, patch, x.n, rnds, G).ok
            /\ Iteration(estimator, attack, patch, x.n, rnds, G).queries
                   = x.n \div attack.batch_size
            /\ \A i \in 1..NumPix(attack.patch_shape) :
                   Iteration(estimator, attack, patch, x.n, rnds, G).patch_gradients[i]
                       = WholeBatchSum(G, attack.batch_size, x.n \div attack.batch_size)
            /\ x.n < attack.batch_size
                   => Iteration(estimator, attack, patch, x.n, rnds, G).patch = patch

(***************************************************************************)
(* apply_patch, lines 174-185.                                              *)
(***************************************************************************)
\* patch_external=None of apply_patch.
NoPatch == <<>>

\* The external patches handed to apply_patch: none, or a patch of the
\* patch shape holding the lower clip value.
ExternalPatches(est, att) ==
    {NoPatch, [i \in 1..NumPix(att.patch_shape) |-> est.clip_values[1]]}

\* apply_patch is called on n images; x records the call.
ApplyPatch ==
    /\ pc = "constructed"
    /\ \E n \in 1..MaxN, scale \in ScaleValues,
          patch_external \in ExternalPatches(estimator, attack) :
         \E rnds \in [1..n -> Draws(attack)] :
           LET aug == _augment_images_with_random_patch(
                          estimator, attack, n,
                          [shape |-> attack.patch_shape,
                           leaf |-> [kind |-> "patch",
                                     v |-> IF patch_external # NoPatch THEN patch_external
                                           ELSE patch],
                           ops |-> <<>>],
                          scale, rnds)
           IN  /\ x' = [ndim |-> 4, n |-> n, scale |-> scale,
                        patch_external |-> patch_external]
               /\ sampled' = aug.calls
               /\ pc' = IF aug.ok THEN "applied" ELSE "error"
               /\ raised' = IF aug.ok THEN "" ELSE aug.err
               /\ transforms' = IF aug.ok THEN aug.transformations ELSE <<>>
               /\ returned' = IF aug.ok THEN aug.patched_images ELSE <<>>
    /\ UNCHANGED <<estimator, attack, patch, iter, queries, patch_gradients>>
    /\ UNCHANGED deepVars

SpecApply == InitPatch /\ [][ApplyPatch]_vars

\* C14: apply_patch composites every image with a transform whose recorded
\* scale is the supplied scale and whose rotation is a sampled one, uses
\* patch_external when supplied and the stored patch otherwise, issues no
\* gradient query and leaves the stored patch unchanged.
C14_ApplyPatchFrame ==
    pc # "constructed" =>
        /\ pc = "applied"
        /\ Len(returned) = x.n
        /\ Len(transforms) = x.n
        /\ sampled = x.n
        /\ \A i \in 1..x.n :
               /\ transforms[i]["scale"] = x.scale
               /\ transforms[i]["rotate"] \in {d.angle : d \in Draws(attack)}
               /\ returned[i].image = i
               /\ returned[i].patch.leaf.v =
                      IF x.patch_external # NoPatch THEN x.patch_external ELSE patch
        /\ queries = 0
        /\ patch = InitialPatch(estimator, attack)

\* The names of the library operations applied to a tensor, in order.
OpNames(t) == [i \in 1..Len(t.ops) |-> t.ops[i].op]

\* The operations claimed for the forward transform with the record rec:
\* rotate, then scale (a factor of 1 returns the tensor itself), then shift
\* (when the record holds offsets).
ForwardOrder(rec) ==
    <<"rotate">> \o (IF rec["scale"] = RInt(1) THEN <<>> ELSE <<"scale">>)
                 \o (IF "shift_1" \in DOMAIN rec THEN <<"shift">> ELSE <<>>)

\* The operations claimed for the reverse mapping with the record rec.
ReverseOrder(rec) ==
    <<"mask", "shift">> \o (IF rec["scale"] = RInt(1) THEN <<>> ELSE <<"scale">>)
                        \o <<"rotate">>

\* tr, the outcome of _random_transformation, applied rotate, scale and
\* shift in this order and with the same parameters to patch and mask.
ForwardOrdered(tr) ==
    /\ tr.ok
    /\ tr.val.patch.ops = tr.val.patch_mask.ops
    /\ OpNames(tr.val.patch) = ForwardOrder(tr.val.transformation)
    /\ tr.val.patch.ops[1].angle = tr.val.transformation["rotate"]
    /\ \A i \in 1..Len(tr.val.patch.ops) :
           tr.val.patch.ops[i].op = "scale"
               => tr.val.patch.ops[i].factor = tr.val.transformation["scale"]

\* rv, the outcome of _reverse_transformation for the record rec, applied
\* mask-multiply, shift, scale and rotate in this order, with the negated
\* offsets, the reciprocal factor and the negated angle of the record.
ReverseOrdered(rv, rec) ==
    /\ rv.ok
    /\ OpNames(rv.val) = ReverseOrder(rec)
    /\ rv.val.ops[Len(rv.val.ops)].angle = -rec["rotate"]
    /\ \A i \in 1..Len(rv.val.ops) :
           rv.val.ops[i].op = "scale"
               => rv.val.ops[i].factor = RDiv(RInt(1), rec["scale"])

\* The forward transform and the reverse mapping of a gradient with the
\* record of tr, the outcome of _random_transformation.
BothOrdered(est, att, tr) ==
    /\ ForwardOrdered(tr)
    /\ ReverseOrdered(_reverse_transformation(est, att, GradTensor(est, 1),
                                              tr.val.patch_mask, tr.val.transformation),
                      tr.val.transformation)

\* C15: the forward transform applies rotate, then scale, then shift, with
\* the same parameters to the patch and its mask, and the reverse mapping of
\* a gradient with the sampled record applies mask-multiply, then the shift
\* by the negated offsets, then the scale by the reciprocal factor, then the
\* rotation by the negated angle.
C15_InverseOrder ==
    (pc = "running" /\ x.n >= 1) =>
        \A rnd \in Draws(attack) :
            BothOrdered(estimator, attack,
                        _random_transformation(
                            estimator, attack,
                            [shape |-> attack.patch_shape,
                             leaf |-> [kind |-> "patch", v |-> patch], ops |-> <<>>],
                            NoScale, rnd))


(***************************************************************************)
(* _scale on its own: the forward call of line 352 with a sampled factor    *)
(* and the call of line 381 with its reciprocal, for patches of several     *)
(* heights and widths.                                                      *)
(***************************************************************************)
\* Classifiers whose images (and so whose patches, line 123) have several
\* heights and widths, in both layouts.
ScaleEstimators ==
    [channels_first : {FALSE},
     input_shape : {<<3, 3, 1>>, <<2, 3, 1>>, <<4, 4, 3>>, <<5, 5, 1>>},
     clip_values : {<<0, 2>>}]
    \cup
    [channels_first : {TRUE},
     input_shape : {<<1, 3, 3>>, <<1, 2, 3>>, <<3, 4, 4>>},
     clip_values : {<<0, 2>>}]

\* The values of scale_min and scale_max, and of a sampled scale.
ScaleGrid == {Rat(0, 1), Rat(1, 8), Rat(1, 2), Rat(1, 1)}

ScaleParamSpace ==
    [rotation_max : {0}, scale_min : ScaleGrid, scale_max : ScaleGrid,
     learning_rate : {1}, max_iter : {1}, batch_size : {1}]

\* Line 351: random.uniform(scale_min, scale_max), on the grid.
SampledScales(att) ==
    {s \in ScaleGrid : RLeq(att.scale_min, s) /\ RLeq(s, att.scale_max)}

\* The height and width of the scaled region, lines 296-297 and 310-311; a
\* factor of 1 computes no region and keeps the whole patch.
ScaledRegion(est, att, scale) ==
    LET height == IF est.channels_first THEN att.patch_shape[2] ELSE att.patch_shape[1]
        width == IF est.channels_first THEN att.patch_shape[3] ELSE att.patch_shape[2]
    IN  IF RLt(scale, RInt(1))
        THEN <<RoundHalfEven(RMul(RInt(height), scale)),
               RoundHalfEven(RMul(RInt(width), scale))>>
        ELSE IF RLt(RInt(1), scale)
        THEN <<RoundHalfEven(RDiv(RInt(height), scale)),
               RoundHalfEven(RDiv(RInt(width), scale))>>
        ELSE <<height, width>>

\* A tensor of the patch's shape: the patch or a gradient mapped back.
PatchShaped(att, kind) ==
    [shape |-> att.patch_shape, leaf |-> [kind |-> kind], ops |-> <<>>]

\* The state after the call _scale(t, factor) with outcome r.
Scaled(est, att, t, factor, r, done) ==
    /\ x' = [input |-> t, factor |-> factor, region |-> ScaledRegion(est, att, factor)]
    /\ pc' = IF r.ok THEN done ELSE "error"
    /\ raised' = IF r.ok THEN "" ELSE r.err
    /\ returned' = IF r.ok THEN r.val ELSE <<>>

\* Lines 350-352: a scale is sampled and the patch is scaled by it.
Scale ==
    /\ pc = "constructed"
    /\ \E s \in SampledScales(attack) :
           Scaled(estimator, attack, PatchShaped(attack, "patch"), s,
                  _scale(estimator, attack, PatchShaped(attack, "patch"), s), "scaled")
    /\ UNCHANGED <<estimator, attack, patch, iter, queries, sampled, transforms,
                   patch_gradients>>
    /\ UNCHANGED deepVars

\* Lines 380-381: the gradient is scaled by the reciprocal of the scale of
\* the record, 1.0 / scale.
ScaleBack ==
    /\ pc = "scaled"
    /\ IF x.factor[1] = 0
       THEN /\ pc' = "error"
            /\ raised' = "ZeroDivisionError: float division by zero"
            /\ UNCHANGED <<x, returned>>
       ELSE Scaled(estimator, attack, PatchShaped(attack, "gradient"),
                   RDiv(RInt(1), x.factor),
                   _scale(estimator, attack, PatchShaped(attack, "gradient"),
                          RDiv(RInt(1), x.factor)), "unscaled")
    /\ UNCHANGED <<estimator, attack, patch, iter, queries, sampled, transforms,
                   patch_gradients>>
    /\ UNCHANGED deepVars

\* The attack object after __init__ with accepted scale bounds.
InitScale ==
    /\ NoCertifier
    /\ estimator \in ScaleEstimators
    /\ attack \in {NewAttack(estimator, p) : p \in {q \in ScaleParamSpace : _check_params(q)}}
    /\ patch = InitialPatch(estimator, attack)
    /\ pc = "constructed"
    /\ x = <<>>
    /\ iter = 0
    /\ queries = 0
    /\ sampled = 0
    /\ transforms = <<>>
    /\ patch_gradients = <<>>
    /\ raised = ""
    /\ returned = <<>>

NextScale == Scale \/ ScaleBack

SpecScale == InitScale /\ [][NextScale]_vars

\* C16: _scale returns a tensor of exactly the input's shape for every
\* positive factor and every patch height and width, the reciprocal factors
\* used when reversing a transform included; a factor of 1 returns the input
\* unchanged.
C16_ScaleKeepsShape ==
    (pc \in {"scaled", "unscaled", "error"} /\ RLt(RInt(0), x.factor)) =>
        /\ pc # "error"
        /\ returned.shape = x.input.shape
        /\ x.factor = RInt(1) => returned = x.input


\* C17: for every configuration accepted at construction and every scale
\* sampled from [scale_min, scale_max], and its reciprocal used on inversion,
\* the scaled region computed by _scale is at least 1 pixel high and 1 pixel
\* wide, and no division by a zero scale occurs.
C17_RegionAtLeastOnePixel ==
    /\ pc \in {"scaled", "unscaled"} => (x.region[1] >= 1 /\ x.region[2] >= 1)
    /\ raised # "ZeroDivisionError: float division by zero"


\* Whether pixel rc of an image of shape image_shape (height axis i_h, width
\* axis i_w, 0-based) lies in the centred square that holds the circle.
InFootprint(image_shape, i_h, i_w, rc) ==
    LET height == image_shape[i_h + 1]
        width == image_shape[i_w + 1]
        diameter == Min(height, width)
    IN  /\ rc[1] >= (height - diameter) \div 2
        /\ rc[1] < ((height - diameter) \div 2) + diameter
        /\ rc[2] >= (width - diameter) \div 2
        /\ rc[2] < ((width - diameter) \div 2) + diameter

\* m, the outcome of _get_circular_patch_mask, is an array of the patch's
\* shape with values in [0, 1] that are 0 outside the footprint.
MaskWellFormed(att, m) ==
    /\ m.ok
    /\ m.val.shape = att.patch_shape
    /\ \A rc \in DOMAIN m.val.leaf.v :
           /\ m.val.leaf.v[rc] >= 0
           /\ m.val.leaf.v[rc] <= 1
           /\ ~InFootprint(att.image_shape, att.i_h, att.i_w, rc) => m.val.leaf.v[rc] = 0

\* C18: for both layouts and every image shape, square or not,
\* _get_circular_patch_mask succeeds and returns an array of exactly the
\* patch's shape whose values lie in [0, 1] and are 0 in the padding outside
\* the circular footprint.
C18_MaskBothLayouts ==
    (pc \in {"running", "done", "error"} /\ x.ndim = 4 /\ x.n >= 1) =>
        MaskWellFormed(attack, _get_circular_patch_mask(estimator, attack))


(***************************************************************************)
(* PytorchDeepZ.max_logit_loss on output zonotopes of several widths.       *)
(***************************************************************************)
\* The number of classes the loop of line 341 visits: range(10).
LoopClasses == 10

\* The numbers of classes of the outputs handed to max_logit_loss.
LossWidths == {nb_classes, LoopClasses, LoopClasses + 1}

\* A row of c values: v at position p (1-based), 0 elsewhere.
UnitRow(c, p, v) == [j \in 1..c |-> IF j = p THEN v ELSE 0]

\* An output zonotope of c classes and r rows: the center peaks at class p,
\* and error row k moves class ((q + k - 2) % c) + 1.
LossOutput(c, r, p, q) ==
    [i \in 1..r |-> IF i = 1 THEN UnitRow(c, p, 2)
                    ELSE UnitRow(c, ((q + i - 3) % c) + 1, i - 1)]

\* The calls of max_logit_loss of the model.  keepdim tells whether target is
\* a one-element array (output[:, target] keeps the class axis) or a scalar.
LossCalls ==
    UNION {[output : {LossOutput(c, r, p, q) : r \in {1, 2, c}, p \in {1, 2, c}, q \in {1, c}},
            target : 0..(c - 1), keepdim : BOOLEAN] : c \in LossWidths}

\* Lines 334-335: output - output[:, target], broadcast as torch does.  A
\* scalar target gives a vector of one entry per row, which is aligned with
\* the class axis.
SubtractTarget(output, target, keepdim) ==
    LET rows == Len(output)
        classes == Len(output[1])
    IN  IF keepdim \/ rows = 1
        THEN Ok([i \in 1..rows |-> [j \in 1..classes |->
                     output[i][j] - output[i][target + 1]]])
        ELSE IF rows = classes
        THEN Ok([i \in 1..rows |-> [j \in 1..classes |->
                     output[i][j] - output[j][target + 1]]])
        ELSE Err("RuntimeError: The size of tensor a must match the size of tensor b")

\* Line 337: the sum of the absolute error terms plus the center.
UpperBounds(diff) ==
    [j \in 1..Len(diff[1]) |->
        SumTo([i \in 1..(Len(diff) - 1) |-> Abs(diff[i + 1][j])], Len(diff) - 1) + diff[1][j]]

\* Lines 339-343, ubs being the upper bounds: the largest of ubs[i], i in
\* range(10), i != target.
LoopMax(ubs, target) ==
    IF \E i \in 0..(LoopClasses - 1) : i # target /\ i + 1 > Len(ubs)
    THEN Err("IndexError: index out of range")
    ELSE LET seen == {ubs[i + 1] : i \in (0..(LoopClasses - 1)) \ {target}}
         IN  Ok(CHOOSE v \in seen : \A w \in seen : w <= v)

\* max_logit_loss, lines 330-344.
max_logit_loss(output, target, keepdim) ==
    IF ~SubtractTarget(output, target, keepdim).ok
    THEN SubtractTarget(output, target, keepdim)
    ELSE LoopMax(UpperBounds(SubtractTarget(output, target, keepdim).val), target)

\* A call of max_logit_loss is made and its outcome recorded.
MaxLogitLoss ==
    /\ pcz = "loss"
    /\ last.op = "input"
    /\ last' = [op |-> "max_logit_loss", call |-> last.call,
                out |-> max_logit_loss(last.call.output, last.call.target,
                                       last.call.keepdim)]
    /\ UNCHANGED <<network, model, pcz, convert_error>>
    /\ UNCHANGED patchVars

\* An output zonotope and a target are about to be handed to max_logit_loss.
InitLoss ==
    /\ NoAttack
    /\ network = <<>>
    /\ model = NoModel
    /\ pcz = "loss"
    /\ convert_error = ""
    /\ last \in {[op |-> "input", call |-> c] : c \in LossCalls}

SpecLoss == InitLoss /\ [][MaxLogitLoss]_vars

\* The upper bound of logit[i] - logit[target] (0-based classes): the center
\* difference plus the sum of the absolute error-term differences.
DifferenceUpperBound(output, i, target) ==
    (output[1][i + 1] - output[1][target + 1])
    + SumTo([k \in 1..(Len(output) - 1) |->
                Abs(output[k + 1][i + 1] - output[k + 1][target + 1])], Len(output) - 1)

\* C19: max_logit_loss(output, target) returns the largest value, over all
\* incorrect classes i != target of the output zonotope, whatever the number
\* of classes, of the upper bound of logit[i] - logit[target], computed as
\* the center difference plus the sum of absolute error-term differences.
C19_MaxLogitLoss ==
    last.op = "max_logit_loss" =>
        /\ last.out.ok
        /\ \E i \in (0..(Len(last.call.output[1]) - 1)) \ {last.call.target} :
               last.out.val = DifferenceUpperBound(last.call.output, i, last.call.target)
        /\ \A i \in (0..(Len(last.call.output[1]) - 1)) \ {last.call.target} :
               last.out.val >= DifferenceUpperBound(last.call.output, i, last.call.target)

====
